---- MODULE Spec2Model ----
(***************************************************************************)
(* Model of the splid MCP server: the createExpense / listEntries /       *)
(* getGroupSummary tool handlers (src/src/mcp.ts), the splidApi adapter   *)
(* and the session map of the HTTP front end (src/src/server.ts).         *)
(*                                                                         *)
(* JavaScript strings are sequences of one-character strings, so that     *)
(* toLowerCase is computed character by character.  `undefined`, the      *)
(* function object every plain object inherits as `constructor`, and      *)
(* Object.prototype itself are the values Undefined, InheritedFn and      *)
(* ObjectPrototype, which are not strings.                                *)
(*                                                                         *)
(* Shares are IEEE-754 doubles in the source.  The model draws them from  *)
(* the dyadic grid k / 2^20 and stores the integer k: on that grid every  *)
(* sum and difference the handler computes is exact in double arithmetic, *)
(* and no grid point lies within rounding distance of 1e-6.               *)
(***************************************************************************)
EXTENDS Integers, Sequences, FiniteSets, TLC

VARIABLES
    pc,          \* position of the tool handler: idle, awaitGroup, awaitMembers, awaitFinal, done
    tool,        \* name of the tool being run
    args,        \* the (schema-valid) arguments of the invocation
    group,       \* const group (mcp.ts:91), NoGroup until resolved
    snapshot,    \* const list (mcp.ts:67): the member list the collaborator returned
    nameToId,    \* let nameToId (mcp.ts:105)
    result,      \* what the handler returned or threw
    trace,       \* the steps of the invocation, in the order they happened
    callSid,     \* the session the invocation runs on (Undefined: none)
    transports,  \* const transports (server.ts:79): session identifier -> transport
    created,     \* session identifiers generated so far (one transport each)
    closed,      \* transports whose close signal has been processed
    connecting,  \* initialization requests whose transport has not named its session yet
    response,    \* the answer to the last HTTP request
    event        \* the last request, close signal or handler step

vars == <<pc, tool, args, group, snapshot, nameToId, result, trace,
          callSid, transports, created, closed, connecting, response, event>>

----------------------------------------------------------------------------
(* JavaScript values *)

Undefined == <<"undefined">>
InheritedFn == <<"function Object">>
ObjectPrototype == <<"Object.prototype">>
EmptyString == <<>>

\* !!v for the values of the model
Truthy(v) == v # Undefined /\ v # EmptyString

\* typeof v === 'string'
IsString(v) == v # Undefined /\ v # InheritedFn /\ v # ObjectPrototype

\* a number n as a value that may also be undefined
Number(n) == <<"number", n>>

\* The alphabet of the model: ASCII and Latin-1.  On it toLowerCase maps
\* each upper-case letter to one lower-case letter and leaves every other
\* character as it is.
UpperChars == <<"A","B","C","D","E","F","G","H","I","J","K","L","M",
                "N","O","P","Q","R","S","T","U","V","W","X","Y","Z",
                "À","Á","Â","Ã","Ä","Å","Æ","Ç","È","É","Ê","Ë","Ì","Í","Î","Ï",
                "Ð","Ñ","Ò","Ó","Ô","Õ","Ö","Ø","Ù","Ú","Û","Ü","Ý","Þ">>
LowerChars == <<"a","b","c","d","e","f","g","h","i","j","k","l","m",
                "n","o","p","q","r","s","t","u","v","w","x","y","z",
                "à","á","â","ã","ä","å","æ","ç","è","é","ê","ë","ì","í","î","ï",
                "ð","ñ","ò","ó","ô","õ","ö","ø","ù","ú","û","ü","ý","þ">>

LowerChar(c) ==
    IF \E i \in 1..Len(UpperChars) : UpperChars[i] = c
    THEN LowerChars[CHOOSE i \in 1..Len(UpperChars) : UpperChars[i] = c]
    ELSE c

\* String.prototype.toLowerCase
ToLowerCase(s) == [i \in 1..Len(s) |-> LowerChar(s[i])]

\* The property names a plain object {} inherits from Object.prototype as
\* functions (__proto__, an accessor, is ProtoKey below).  Only constructor
\* is its own lower-case form.
InheritedKeys ==
    { <<"c","o","n","s","t","r","u","c","t","o","r">>,
      <<"t","o","S","t","r","i","n","g">>,
      <<"t","o","L","o","c","a","l","e","S","t","r","i","n","g">>,
      <<"v","a","l","u","e","O","f">>,
      <<"h","a","s","O","w","n","P","r","o","p","e","r","t","y">>,
      <<"i","s","P","r","o","t","o","t","y","p","e","O","f">>,
      <<"p","r","o","p","e","r","t","y","I","s","E","n","u","m","e","r","a","b","l","e">>,
      <<"_","_","d","e","f","i","n","e","G","e","t","t","e","r","_","_">>,
      <<"_","_","d","e","f","i","n","e","S","e","t","t","e","r","_","_">>,
      <<"_","_","l","o","o","k","u","p","G","e","t","t","e","r","_","_">>,
      <<"_","_","l","o","o","k","u","p","S","e","t","t","e","r","_","_">> }

EmptyObject == <<>>

\* the accessor property of Object.prototype that reads and sets an object's
\* prototype
ProtoKey == <<"_","_","p","r","o","t","o","_","_">>

\* obj[key] on a plain object {}: the prototype for __proto__, else the own
\* property, else the inherited one, else undefined
Get(obj, key) ==
    IF key = ProtoKey THEN ObjectPrototype
    ELSE IF key \in DOMAIN obj THEN obj[key]
    ELSE IF key \in InheritedKeys THEN InheritedFn
    ELSE Undefined

\* obj[key] = value, for the values of the model (strings and
\* Object.prototype): assigning a string to __proto__ changes nothing, and
\* assigning Object.prototype to it leaves the prototype as it was
Put(obj, key, value) ==
    IF key = ProtoKey THEN obj
    ELSE [k \in (DOMAIN obj) \cup {key} |-> IF k = key THEN value ELSE obj[k]]

\* Array.from(new Set(seq)): first occurrences, in order
RECURSIVE Dedup(_)
Dedup(seq) ==
    IF seq = <<>> THEN <<>>
    ELSE LET front == Dedup(SubSeq(seq, 1, Len(seq) - 1))
             last == seq[Len(seq)]
         IN IF \E i \in 1..Len(front) : front[i] = last
            THEN front ELSE Append(front, last)

Abs(x) == IF x < 0 THEN -x ELSE x

----------------------------------------------------------------------------
(* Numbers *)

\* 1.0 and 0.5 in grid units of 2^-20
One == 1048576
Half == One \div 2
\* 1e-6 = EpsilonNum / EpsilonDen
EpsilonNum == 1
EpsilonDen == 1000000

\* the comparison without Math.abs
ExceedsEpsilonOneSided(s) == (s - One) > (EpsilonNum * One) \div EpsilonDen

\* Math.abs(sum - 1) > epsilon, for sum = s / One: epsilon is
\* EpsilonNum * One / EpsilonDen grid units, and an integer exceeds that
\* exactly when it exceeds its integer part
ExceedsEpsilon(s) == Abs(s - One) > (EpsilonNum * One) \div EpsilonDen

\* profiteers.reduce((s, p) => s + p.share, 0)
RECURSIVE SumShares(_)
SumShares(profiteers) ==
    IF profiteers = <<>> THEN 0
    ELSE SumShares(SubSeq(profiteers, 1, Len(profiteers) - 1))
         + profiteers[Len(profiteers)].share

----------------------------------------------------------------------------
(* splidApi, the adapter over the external client (server.ts:20-69).  The  *)
(* external service is a collaborator: its answers are chosen among the    *)
(* tables below, and every call to it may fail.                            *)

DefaultGroupId == <<"D","0">>
\* group.getByInviteCode(code).result.objectId
InviteCodeGroup(code) == <<"G">> \o code
\* groupInfo.getOneByGroup(id).defaultCurrencyCode: only some groups carry one
GroupCurrency(id) == IF id = DefaultGroupId THEN <<"U","S","D">> ELSE Undefined

\* no group yet
NoGroup == [id |-> Undefined, currencyCode |-> Undefined]

NotSupported == "Group selection by name is not supported yet"
CollaboratorError == "collaborator failure"

Returned(v) == [threw |-> FALSE, value |-> v]
Thrown(m) == [threw |-> TRUE, message |-> m]

\* splidApi.getDefaultGroup
getDefaultGroup ==
    { Returned([id |-> DefaultGroupId, currencyCode |-> GroupCurrency(DefaultGroupId)]),
      Thrown(CollaboratorError) }

\* resolveGroup without its groupName branch
resolveGroupDefaultsOnName(input) ==
    IF Truthy(input.groupId)
    THEN { Returned([id |-> input.groupId, currencyCode |-> GroupCurrency(input.groupId)]),
           Thrown(CollaboratorError) }
    ELSE IF Truthy(input.groupCode)
    THEN { Returned([id |-> InviteCodeGroup(input.groupCode),
                     currencyCode |-> GroupCurrency(InviteCodeGroup(input.groupCode))]),
           Thrown(CollaboratorError) }
    ELSE getDefaultGroup

\* splidApi.resolveGroup: the outcomes for a selector
resolveGroup(input) ==
    IF Truthy(input.groupId)
    THEN { Returned([id |-> input.groupId, currencyCode |-> GroupCurrency(input.groupId)]),
           Thrown(CollaboratorError) }
    ELSE IF Truthy(input.groupCode)
    THEN { Returned([id |-> InviteCodeGroup(input.groupCode),
                     currencyCode |-> GroupCurrency(InviteCodeGroup(input.groupCode))]),
           Thrown(CollaboratorError) }
    ELSE IF Truthy(input.groupName)
    THEN { Thrown(NotSupported) }
    ELSE getDefaultGroup

Selector(a) == [groupId |-> a.groupId, groupCode |-> a.groupCode, groupName |-> a.groupName]

\* (groupId || groupCode || groupName), mcp.ts:91
HasSelector(a) == Truthy(a.groupId) \/ Truthy(a.groupCode) \/ Truthy(a.groupName)

\* which collaborator operation the handler calls to find the group
GroupStep(a) == IF HasSelector(a) THEN "resolveGroup" ELSE "getDefaultGroup"

\* the outcomes of that call
GroupOutcomes(a) == IF HasSelector(a) THEN resolveGroup(Selector(a)) ELSE getDefaultGroup

\* splidApi.createExpense: what is handed to entry.expense.create
ToClientExpense(input) ==
    [options |-> [groupId |-> input.groupId,
                  title |-> input.title,
                  payers |-> [i \in 1..Len(input.payers) |->
                                 [id |-> input.payers[i].userId,
                                  amount |-> input.payers[i].amount]],
                  currencyCode |-> input.currencyCode],
     items |-> [amount |-> input.amount,
                profiteers |-> [i \in 1..Len(input.profiteers) |->
                                   [id |-> input.profiteers[i].userId,
                                    share |-> input.profiteers[i].share]]]]

----------------------------------------------------------------------------
(* resolveUserIdsByName (mcp.ts:65-81), after listMembers has answered *)

\* if (m && typeof m.name === 'string' && typeof m.GlobalId === 'string')
MemberUsable(m) == IsString(m.name) /\ IsString(m.GlobalId)

\* the first loop: lower-cased name -> GlobalId, later members overwrite
RECURSIVE BuildNameToGlobalId(_)
BuildNameToGlobalId(list) ==
    IF list = <<>> THEN EmptyObject
    ELSE LET before == BuildNameToGlobalId(SubSeq(list, 1, Len(list) - 1))
             m == list[Len(list)]
         IN IF MemberUsable(m)
            THEN Put(before, ToLowerCase(m.name), m.GlobalId)
            ELSE before

\* `Unknown member name: ${n}`, without the name
UnknownMember == "Unknown member name: "

\* const key = n.toLowerCase()
LookupKey(n) == ToLowerCase(n)

\* the second loop from position i on; stops at the first name without an entry
RECURSIVE ResolveFrom(_, _, _, _)
ResolveFrom(nameToGlobalId, names, i, resolved) ==
    IF i > Len(names) THEN Returned(resolved)
    ELSE LET n == names[i]
             key == LookupKey(n)
         IN IF ~Truthy(Get(nameToGlobalId, key))
            THEN [threw |-> TRUE, message |-> UnknownMember, name |-> n]
            ELSE ResolveFrom(nameToGlobalId, names, i + 1,
                             Put(resolved, n, Get(nameToGlobalId, key)))

resolveUserIdsByName(list, names) ==
    ResolveFrom(BuildNameToGlobalId(list), names, 1, EmptyObject)

----------------------------------------------------------------------------
(* The createExpense handler (mcp.ts:90-126), between its awaits *)


NeedsName(p) == ~Truthy(p.userId) /\ Truthy(p.name)
NameOf(p) == p.name
\* .map(p => p.name as string)
Names(seq) == [i \in 1..Len(seq) |-> NameOf(seq[i])]

\* mcp.ts:102-104
NamesToResolve(a) ==
    Dedup(Names(SelectSeq(a.payers, NeedsName))
          \o Names(SelectSeq(a.profiteers, NeedsName)))

\* p.userId ?? nameToId[p.name]
NormalizedUserId(p, ids) == IF p.userId # Undefined THEN p.userId ELSE Get(ids, p.name)

\* mcp.ts:110-111
NormalizedPayers(a, ids) ==
    [i \in 1..Len(a.payers) |->
        [userId |-> NormalizedUserId(a.payers[i], ids), amount |-> a.payers[i].amount]]
NormalizedProfiteers(a, ids) ==
    [i \in 1..Len(a.profiteers) |->
        [userId |-> NormalizedUserId(a.profiteers[i], ids), share |-> a.profiteers[i].share]]

\* mcp.ts:113
SomeIdMissing(a, ids) ==
    \/ \E i \in 1..Len(a.payers) : ~Truthy(NormalizedPayers(a, ids)[i].userId)
    \/ \E i \in 1..Len(a.profiteers) : ~Truthy(NormalizedProfiteers(a, ids)[i].userId)

\* currencyCode ?? group.currencyCode ?? 'EUR'
Currency(a, g) ==
    IF a.currencyCode # Undefined THEN a.currencyCode
    ELSE IF g.currencyCode # Undefined THEN g.currencyCode
    ELSE <<"E","U","R">>

\* the argument of splid.createExpense, mcp.ts:117-124
ExpenseInput(a, g, ids) ==
    [groupId |-> g.id,
     title |-> a.title,
     amount |-> a.amount,
     currencyCode |-> Currency(a, g),
     payers |-> NormalizedPayers(a, ids),
     profiteers |-> NormalizedProfiteers(a, ids)]

NoResult == [kind |-> "none", isError |-> FALSE, message |-> "none", arg |-> Undefined]
\* { content: [{ type: 'text', text }], isError: true }
ToolError(msg, arg) == [kind |-> "returned", isError |-> TRUE, message |-> msg, arg |-> arg]
\* { content: [{ type: 'text', text: JSON.stringify(value) }] }
ToolOk(value) == [kind |-> "returned", isError |-> FALSE, message |-> "JSON", arg |-> value]
\* the handler's promise rejects
Rejected(msg, arg) == [kind |-> "thrown", isError |-> FALSE, message |-> msg, arg |-> arg]

Step(name, arg) == [step |-> name, arg |-> arg]

SharesMsg == "Shares must sum to 1. Current sum: "
FailedToResolve == "Failed to resolve all user names to IDs"

\* mcp.ts:110-125, once nameToId is known; tr is the trace so far
CreateExpenseAfterNames(a, g, ids, tr) ==
    IF SomeIdMissing(a, ids)
    THEN [pc |-> "done", result |-> ToolError(FailedToResolve, Undefined),
          trace |-> tr, nameToId |-> ids]
    ELSE [pc |-> "awaitFinal", result |-> NoResult,
          trace |-> Append(Append(tr, Step("createExpense", ExpenseInput(a, g, ids))),
                           Step("entry.expense.create",
                                ToClientExpense(ExpenseInput(a, g, ids)))),
          nameToId |-> ids]

\* the member list fetched before the shares are checked
CreateExpenseMembersFirst(a, g, tr) ==
    LET sum == SumShares(a.profiteers)
        fetched == Append(tr, Step("listMembers", g.id))
        checked == Append(fetched, Step("shareCheck", sum))
    IN IF Len(NamesToResolve(a)) = 0
       THEN CreateExpenseAfterNames(a, g, EmptyObject, Append(tr, Step("shareCheck", sum)))
       ELSE IF ExceedsEpsilon(sum)
       THEN [pc |-> "done", result |-> ToolError(SharesMsg, sum),
             trace |-> checked, nameToId |-> EmptyObject]
       ELSE [pc |-> "awaitMembers", result |-> NoResult,
             trace |-> checked, nameToId |-> EmptyObject]

\* mcp.ts:94-108, once the group is known
CreateExpenseAfterGroup(a, g, tr) ==
    LET sum == SumShares(a.profiteers)
        checked == Append(tr, Step("shareCheck", sum))
    IN IF ExceedsEpsilon(sum)
       THEN [pc |-> "done", result |-> ToolError(SharesMsg, sum),
             trace |-> checked, nameToId |-> EmptyObject]
       ELSE IF Len(NamesToResolve(a)) > 0
       THEN [pc |-> "awaitMembers", result |-> NoResult,
             trace |-> Append(checked, Step("listMembers", g.id)),
             nameToId |-> EmptyObject]
       ELSE CreateExpenseAfterNames(a, g, EmptyObject, checked)

DefaultLimit == 20
\* limit ?? 20
Limit(a) == IF a.limit # Undefined THEN a.limit[2] ELSE DefaultLimit

\* listEntries (mcp.ts:135-141) and getGroupSummary (mcp.ts:150-156) once the
\* group is known: one collaborator call, then the answer
ReadToolAfterGroup(t, a, g, tr) ==
    [pc |-> "awaitFinal", result |-> NoResult,
     trace |-> Append(tr, Step(t, IF t = "listEntries"
                                  THEN [groupId |-> g.id, limit |-> Limit(a)]
                                  ELSE [groupId |-> g.id])),
     nameToId |-> EmptyObject]

AfterGroup(t, a, g, tr) ==
    IF t = "createExpense" THEN CreateExpenseAfterGroup(a, g, tr)
    ELSE ReadToolAfterGroup(t, a, g, tr)

\* members.result?.results ?? members
Unwrap(members) == IF members.wrapped THEN members.result.results ELSE members.items

----------------------------------------------------------------------------
(* Inputs: arguments that pass the zod schemas (mcp.ts:37-61, 129), and the *)
(* member lists the collaborator may answer with.                           *)

MaxPayers == 1
MaxProfiteers == 2
MaxMembers == 2

U1 == <<"u","1">>
El == <<"É","l">>
EL == <<"É","L">>
Proto == ProtoKey
G1 == <<"g","1">>
G2 == <<"g","2">>
G3 == <<"g","3">>

SeqsUpTo(S, n) == UNION { [1..k -> S] : k \in 1..n }

\* userId / name pairs with !!userId || !!name (the refinements of
\* PayerLoose and ProfiteerLoose)
PayerIds ==
    { [userId |-> U1, name |-> El],
      [userId |-> EmptyString, name |-> El],
      [userId |-> Undefined, name |-> El] }
ProfiteerIds ==
    { [userId |-> U1, name |-> Undefined],
      [userId |-> Undefined, name |-> EL],
      [userId |-> Undefined, name |-> Proto] }

\* amount: z.number().positive(); the i-th payer pays 5, 7, 9, ...
PayerAmount(i) == 3 + 2 * i
PayerLists ==
    { [i \in 1..Len(ids) |->
          [userId |-> ids[i].userId, name |-> ids[i].name, amount |-> PayerAmount(i)]] :
      ids \in SeqsUpTo(PayerIds, MaxPayers) }

\* 2^n
RECURSIVE Pow2(_)
Pow2(n) == IF n = 0 THEN 1 ELSE 2 * Pow2(n - 1)

\* shares 1/2, 1/4, ..., 1/2^(k-1), 1/2^(k-1): they sum to 1 exactly
ExactSplit(k) == [i \in 1..k |-> IF i < k THEN One \div Pow2(i) ELSE One \div Pow2(k - 1)]

\* what is added to the last share, in grid units: the sum is then 1 + d / 2^20
Deltas == { -(One \div 4), -2, -1, 0, 1, 2 }

\* share: z.number().gt(0).lte(1)
ValidShare(sh) == sh > 0 /\ sh <= One

ShareLists(k) ==
    { [i \in 1..k |-> IF i = k THEN ExactSplit(k)[i] + d ELSE ExactSplit(k)[i]] :
      d \in { e \in Deltas : ValidShare(ExactSplit(k)[k] + e) } }

ProfiteerLists ==
    UNION { { [i \in 1..Len(ids) |->
                 [userId |-> ids[i].userId, name |-> ids[i].name, share |-> shares[i]]] :
              shares \in ShareLists(Len(ids)) } :
            ids \in SeqsUpTo(ProfiteerIds, MaxProfiteers) }

SelectorInputs ==
    [groupId : {Undefined, <<"G","1">>},
     groupCode : {Undefined, <<"C","1">>},
     groupName : {Undefined, EmptyString, <<"N","1">>}]

Dinner == <<"D","i","n","n","e","r">>

CreateExpenseInputs ==
    { [title |-> Dinner, amount |-> 12, currencyCode |-> Undefined,
       payers |-> ps, profiteers |-> fs,
       groupId |-> sel.groupId, groupCode |-> sel.groupCode, groupName |-> sel.groupName] :
      ps \in PayerLists,
      fs \in ProfiteerLists,
      sel \in { x \in SelectorInputs : x.groupCode = Undefined /\ x.groupName # EmptyString } }

\* ListEntriesInput: the destructured limit is undefined when the caller
\* gives none (the schema is partial), else an integer in 1..100
ListEntriesInputs ==
    { [limit |-> l,
       groupId |-> sel.groupId, groupCode |-> sel.groupCode, groupName |-> sel.groupName] :
      l \in { Undefined, Number(5) },
      sel \in SelectorInputs }

\* SummarySelector
ReadToolInputs ==
    { [groupId |-> sel.groupId, groupCode |-> sel.groupCode, groupName |-> sel.groupName] :
      sel \in SelectorInputs }

ToolInputs(t) ==
    IF t = "createExpense" THEN CreateExpenseInputs
    ELSE IF t = "listEntries" THEN ListEntriesInputs
    ELSE ReadToolInputs

Tools == { "createExpense", "listEntries", "getGroupSummary" }

MemberInputs ==
    { [name |-> El, GlobalId |-> G1],
      [name |-> ToLowerCase(El), GlobalId |-> G2],
      [name |-> El, GlobalId |-> Undefined],
      [name |-> Proto, GlobalId |-> G3] }

MemberLists == { <<>> } \cup SeqsUpTo(MemberInputs, MaxMembers)

\* the two shapes of person.getByGroup's answer
ListMembersAnswers ==
    { [wrapped |-> TRUE, result |-> [results |-> l]] : l \in MemberLists }
    \cup { [wrapped |-> FALSE, items |-> l] : l \in MemberLists }

----------------------------------------------------------------------------
(* The tool handler as a process: one step per await.  The handlers close  *)
(* over splid only (buildMcpServer, mcp.ts:20): no step of theirs touches   *)
(* the session map.                                                         *)

Response(status, header, body) == [status |-> status, header |-> header, body |-> body]
Event(type, header, init) == [type |-> type, header |-> header, init |-> init]

NoResponse == [status |-> "none", header |-> Undefined, body |-> "none"]
NoEvent == [type |-> "none", header |-> Undefined, init |-> FALSE]

InitTool ==
    /\ pc = "idle"
    /\ tool = "none"
    /\ args = <<>>
    /\ group = NoGroup
    /\ snapshot = <<>>
    /\ nameToId = EmptyObject
    /\ result = NoResult
    /\ trace = <<>>
    /\ callSid = Undefined

\* the handler is entered; its first collaborator call is issued
Enter(t, a, sid) ==
    /\ pc' = "awaitGroup"
    /\ tool' = t
    /\ args' = a
    /\ group' = NoGroup
    /\ snapshot' = <<>>
    /\ nameToId' = EmptyObject
    /\ result' = NoResult
    /\ trace' = << Step(GroupStep(a), Selector(a)) >>
    /\ callSid' = sid

\* a call on an idle handler
StartCall(t, a, sid) == pc = "idle" /\ Enter(t, a, sid)

\* the invocation is over and its locals are dropped
EndCall ==
    /\ pc = "done"
    /\ pc' = "idle"
    /\ tool' = "none"
    /\ args' = <<>>
    /\ group' = NoGroup
    /\ snapshot' = <<>>
    /\ nameToId' = EmptyObject
    /\ result' = NoResult
    /\ trace' = <<>>
    /\ callSid' = Undefined

\* await splid.resolveGroup(...) / splid.getDefaultGroup() settles
GroupReturned ==
    /\ pc = "awaitGroup"
    /\ \E o \in GroupOutcomes(args) :
          IF o.threw
          THEN /\ pc' = "done"
               /\ result' = Rejected(o.message, Undefined)
               /\ trace' = Append(trace, Step("groupFailed", o.message))
               /\ UNCHANGED <<group, nameToId>>
          ELSE \E next \in { AfterGroup(tool, args, o.value,
                                        Append(trace, Step("groupResolved", o.value.id))) } :
                  /\ group' = o.value
                  /\ pc' = next.pc
                  /\ result' = next.result
                  /\ trace' = next.trace
                  /\ nameToId' = next.nameToId
    /\ UNCHANGED <<tool, args, snapshot>>
    /\ event' = Event("handler", callSid, FALSE)
    /\ UNCHANGED <<callSid, transports, created, closed, connecting, response>>

\* await splid.listMembers(groupId) settles with a member list
MembersReturned ==
    /\ pc = "awaitMembers"
    /\ \E members \in ListMembersAnswers :
       \E r \in { resolveUserIdsByName(Unwrap(members), NamesToResolve(args)) } :
          /\ snapshot' = Unwrap(members)
          /\ IF r.threw
             THEN /\ pc' = "done"
                  /\ result' = Rejected(r.message, r.name)
                  /\ trace' = Append(trace, Step("membersListed", Len(Unwrap(members))))
                  /\ UNCHANGED nameToId
             ELSE \E next \in { CreateExpenseAfterNames(args, group, r.value,
                                   Append(trace, Step("membersListed", Len(Unwrap(members))))) } :
                     /\ pc' = next.pc
                     /\ result' = next.result
                     /\ trace' = next.trace
                     /\ nameToId' = next.nameToId
    /\ UNCHANGED <<tool, args, group>>
    /\ event' = Event("handler", callSid, FALSE)
    /\ UNCHANGED <<callSid, transports, created, closed, connecting, response>>

\* await splid.listMembers(groupId) rejects
MembersFailed ==
    /\ pc = "awaitMembers"
    /\ pc' = "done"
    /\ result' = Rejected(CollaboratorError, Undefined)
    /\ trace' = Append(trace, Step("membersFailed", CollaboratorError))
    /\ UNCHANGED <<tool, args, group, snapshot, nameToId>>
    /\ event' = Event("handler", callSid, FALSE)
    /\ UNCHANGED <<callSid, transports, created, closed, connecting, response>>

\* the last collaborator call (createExpense, listEntries, getGroupSummary) returns
FinalReturned ==
    /\ pc = "awaitFinal"
    /\ pc' = "done"
    /\ result' = ToolOk(tool)
    /\ trace' = Append(trace, Step("finalReturned", tool))
    /\ UNCHANGED <<tool, args, group, snapshot, nameToId>>
    /\ event' = Event("handler", callSid, FALSE)
    /\ UNCHANGED <<callSid, transports, created, closed, connecting, response>>

\* the last collaborator call rejects
FinalFailed ==
    /\ pc = "awaitFinal"
    /\ pc' = "done"
    /\ result' = Rejected(CollaboratorError, Undefined)
    /\ trace' = Append(trace, Step("finalFailed", CollaboratorError))
    /\ UNCHANGED <<tool, args, group, snapshot, nameToId>>
    /\ event' = Event("handler", callSid, FALSE)
    /\ UNCHANGED <<callSid, transports, created, closed, connecting, response>>

----------------------------------------------------------------------------
(* Spec: the tool handlers, invoked directly *)

InitSessions ==
    /\ transports = EmptyObject
    /\ created = {}
    /\ closed = {}
    /\ connecting = 0
    /\ response = NoResponse
    /\ event = NoEvent

Init == InitTool /\ InitSessions

InvokeTool ==
    /\ pc = "idle"
    /\ \E t \in Tools : \E a \in ToolInputs(t) : StartCall(t, a, Undefined)
    /\ UNCHANGED <<transports, created, closed, connecting, response, event>>

Return ==
    /\ EndCall
    /\ UNCHANGED <<transports, created, closed, connecting, response, event>>

Next ==
    \/ InvokeTool
    \/ GroupReturned
    \/ MembersReturned
    \/ MembersFailed
    \/ FinalReturned
    \/ FinalFailed
    \/ Return

Spec == Init /\ [][Next]_vars

----------------------------------------------------------------------------
(* The session manager (server.ts:79-139) *)

MaxSessions == 2

\* the values sessionIdGenerator (randomUUID) yields, in the order it yields them
SessionId(i) == <<"sid", i>>
SessionIds == { SessionId(i) : i \in 1..MaxSessions }

\* req.headers['mcp-session-id']: absent, empty, a plain-object property
\* name, or an identifier (registered, closed or never issued)
Headers == { Undefined, EmptyString, ProtoKey,
             <<"c","o","n","s","t","r","u","c","t","o","r">>,
             <<"t","o","S","t","r","i","n","g">> }
           \cup SessionIds

BadRequest == "Bad Request: No valid session ID provided"
InvalidSession == "Invalid or missing session ID"

\* delete obj[key]
Delete(obj, key) == [k \in (DOMAIN obj) \ {key} |-> obj[k]]

\* a catch block that drops the session
DropOnCatch(ts, sid) == Delete(ts, sid)

\* what the catch block of app.post leaves of the session map (server.ts:115-118)
AfterCatch(ts, sid) == ts

\* the tools/call requests a client sends over a session: calls that give
\* every party by userId, so that no member list is fetched
SessionToolCalls ==
    { [tool |-> "createExpense",
       args |-> [title |-> Dinner, amount |-> 12, currencyCode |-> Undefined,
                 payers |-> << [userId |-> U1, name |-> El, amount |-> 12] >>,
                 profiteers |-> << [userId |-> U1, name |-> Undefined, share |-> Half],
                                   [userId |-> U1, name |-> Undefined, share |-> Half + d] >>,
                 groupId |-> Undefined, groupCode |-> Undefined, groupName |-> Undefined]] :
      d \in {0, -2} }
    \cup
    { [tool |-> "listEntries",
       args |-> [limit |-> Undefined,
                 groupId |-> Undefined, groupCode |-> Undefined, groupName |-> n]] :
      n \in {Undefined, <<"N","1">>} }

\* every body taken for an initialization request
NeverRejected(init) == FALSE

\* !isInitializeRequest(req.body), server.ts:96
NotInitialization(init) == ~init

\* onsessioninitialized (server.ts:104-106)
Transport(sid) == <<"transport", sid>>
Register(ts, sid) == Put(ts, sid, Transport(sid))

\* typeof v.handleRequest === 'function': a registered transport, not a
\* value inherited from Object.prototype
IsTransport(v) == v # InheritedFn /\ v # ObjectPrototype

\* app.post('/mcp') up to its first await (server.ts:82-119)
PostMcp(header, init) ==
    /\ event' = Event("POST", header, init)
    /\ IF Truthy(header)
       THEN IF ~Truthy(Get(transports, header))
            THEN \* server.ts:87-90
                 /\ response' = Response("400", header, BadRequest)
                 /\ UNCHANGED <<transports, created, closed, connecting>>
                 /\ UNCHANGED <<pc, tool, args, group, snapshot, nameToId, result, trace, callSid>>
            ELSE IF ~IsTransport(Get(transports, header))
            THEN \* existing.handleRequest is not a function: caught, server.ts:115-118
                 /\ response' = Response("500", header, "Internal error")
                 /\ transports' = AfterCatch(transports, header)
                 /\ UNCHANGED <<created, closed, connecting>>
                 /\ UNCHANGED <<pc, tool, args, group, snapshot, nameToId, result, trace, callSid>>
            ELSE \* server.ts:91: the transport takes the request; a tools/call
                 \* reaches its handler later, within the await
                 \/ /\ pc = "idle"
                    /\ pc' = "forwarded"
                    /\ callSid' = header
                    /\ response' = Response("forwarded", header, "pending")
                    /\ UNCHANGED <<transports, created, closed, connecting>>
                    /\ UNCHANGED <<tool, args, group, snapshot, nameToId, result, trace>>
                 \/ /\ response' = Response("forwarded", header, "answered")
                    /\ UNCHANGED <<transports, created, closed, connecting>>
                    /\ UNCHANGED <<pc, tool, args, group, snapshot, nameToId, result, trace, callSid>>
       ELSE IF NotInitialization(init)
            THEN \* server.ts:96-99
                 /\ response' = Response("400", header, BadRequest)
                 /\ UNCHANGED <<transports, created, closed, connecting>>
                 /\ UNCHANGED <<pc, tool, args, group, snapshot, nameToId, result, trace, callSid>>
            ELSE \* server.ts:101-113: a new server and transport; the route
                 \* yields at await server.connect with nothing registered
                 /\ Cardinality(created) + connecting < MaxSessions
                 /\ connecting' = connecting + 1
                 /\ response' = Response("forwarded", Undefined, "connecting")
                 /\ UNCHANGED <<transports, created, closed>>
                 /\ UNCHANGED <<pc, tool, args, group, snapshot, nameToId, result, trace, callSid>>

\* await server.connect / await transport.handleRequest of an initialization
\* request settle (server.ts:113-118): the transport names the session and
\* calls onsessioninitialized, or one of the awaits rejects and the catch
\* block answers with nothing registered
InitializeHandled ==
    /\ connecting > 0
    /\ connecting' = connecting - 1
    /\ \/ /\ transports' = Register(transports, SessionId(Cardinality(created) + 1))
          /\ created' = created \cup { SessionId(Cardinality(created) + 1) }
          /\ response' = Response("forwarded", SessionId(Cardinality(created) + 1), "initialized")
          /\ event' = Event("initialized", SessionId(Cardinality(created) + 1), TRUE)
       \/ /\ transports' = AfterCatch(transports, Undefined)
          /\ response' = Response("500", Undefined, "Internal error")
          /\ event' = Event("initFailed", Undefined, TRUE)
          /\ UNCHANGED created
    /\ UNCHANGED closed
    /\ UNCHANGED <<pc, tool, args, group, snapshot, nameToId, result, trace, callSid>>

\* within await existing.handleRequest (server.ts:91) the transport hands the
\* tools/call to the registered handler
Dispatch ==
    /\ pc = "forwarded"
    /\ \E c \in SessionToolCalls : Enter(c.tool, c.args, callSid)
    /\ event' = Event("handler", callSid, FALSE)
    /\ UNCHANGED <<transports, created, closed, connecting, response>>

\* whether app.get / app.delete accept the header (server.ts:124, 134)
Accepted(ts, header) == Truthy(header) /\ Truthy(Get(ts, header))

\* app.get('/mcp') and app.delete('/mcp') (server.ts:122-139)
GetOrDeleteMcp(method, header) ==
    /\ event' = Event(method, header, FALSE)
    /\ IF ~Accepted(transports, header)
       THEN response' = Response("400", header, InvalidSession)
       ELSE IF ~IsTransport(Get(transports, header))
       THEN \* handleRequest is not a function, and nothing catches it
            response' = Response("unhandled", header, "TypeError")
       ELSE response' = Response("forwarded", header, "answered")
    /\ UNCHANGED <<transports, created, closed, connecting>>
    /\ UNCHANGED <<pc, tool, args, group, snapshot, nameToId, result, trace, callSid>>

\* an onclose that leaves the map as it is
KeepOnClose(ts, sid) == ts

\* what transport.onclose leaves of the session map (server.ts:108-111)
AfterClose(ts, sid) ==
    IF Truthy(sid) /\ Truthy(Get(ts, sid)) THEN Delete(ts, sid) ELSE ts

\* the close signal of a transport: sid is its session, Undefined while it
\* has not named one
OnClose(sid) ==
    /\ \/ sid \in created
       \/ sid = Undefined /\ connecting > 0
    /\ transports' = AfterClose(transports, sid)
    /\ closed' = IF Truthy(sid) THEN closed \cup {sid} ELSE closed
    /\ event' = Event("close", sid, FALSE)
    /\ UNCHANGED <<created, connecting, response>>
    /\ UNCHANGED <<pc, tool, args, group, snapshot, nameToId, result, trace, callSid>>

\* the forwarded tools/call is over: `await existing.handleRequest` settles.
\* A handler that threw either is reported in-band by the transport or
\* makes handleRequest reject, which the catch block answers (server.ts:115-118).
PostCompleted ==
    /\ pc = "done"
    /\ Truthy(callSid)
    /\ \E rejects \in { FALSE, result.kind = "thrown" } :
          IF rejects
          THEN /\ response' = Response("500", callSid, "Internal error")
               /\ transports' = AfterCatch(transports, callSid)
          ELSE /\ response' = Response("200", callSid, result.message)
               /\ UNCHANGED transports
    /\ event' = Event("completed", callSid, FALSE)
    /\ EndCall
    /\ UNCHANGED <<created, closed, connecting>>

SessionNext ==
    \/ \E h \in Headers : \E init \in BOOLEAN : PostMcp(h, init)
    \/ \E m \in {"GET", "DELETE"} : \E h \in Headers : GetOrDeleteMcp(m, h)
    \/ InitializeHandled
    \/ Dispatch
    \/ \E sid \in SessionIds \cup {Undefined} : OnClose(sid)
    \/ GroupReturned
    \/ FinalReturned
    \/ FinalFailed
    \/ PostCompleted

SessionSpec == Init /\ [][SessionNext]_vars

----------------------------------------------------------------------------
(* Properties of the tool handlers, checked under Spec *)

StepsTaken == { trace[i].step : i \in 1..Len(trace) }
Took(name) == name \in StepsTaken
StepsNamed(name) == { i \in 1..Len(trace) : trace[i].step = name }

\* the sum of the shares of the arguments, from the first entry on
RECURSIVE TotalFrom(_, _)
TotalFrom(fs, i) == IF i > Len(fs) THEN 0 ELSE fs[i].share + TotalFrom(fs, i + 1)

\* |t / One - 1| <= 1e-6.  More than two grid units off is more than 1e-6
\* off; the product is only formed for the small differences.
WithinTolerance(t) ==
    /\ Abs(t - One) <= 2
    /\ Abs(t - One) * EpsilonDen <= EpsilonNum * One

GroupResolved == group.id # Undefined

\* C1: once createExpense has its group, shares whose sum is within 1e-6 of 1
\* pass the share-sum check (the handler does not answer with the share-sum
\* error); any other sum ends the call with a returned result flagged isError
\* whose message carries the computed sum, and neither listMembers nor
\* GroupService.createExpense is called.
C1_ShareSumCheck ==
    (tool = "createExpense" /\ GroupResolved) =>
        IF WithinTolerance(TotalFrom(args.profiteers, 1))
        THEN /\ result.message # SharesMsg
             /\ Took("shareCheck")
        ELSE /\ pc = "done"
             /\ result.kind = "returned"
             /\ result.isError
             /\ result.message = SharesMsg
             /\ result.arg = TotalFrom(args.profiteers, 1)
             /\ ~Took("listMembers")
             /\ ~Took("createExpense")

\* a sum two grid units above 1 was refused although names were still to resolve
C1_Witness ==
    /\ tool = "createExpense"
    /\ result.message = SharesMsg
    /\ result.arg = One + 2
    /\ Len(NamesToResolve(args)) > 0

\* C7 as stated: whenever a groupName is supplied, whatever accompanies it,
\* the call fails with the 'not supported' error and no group is resolved.
C7_AnyGroupNameFails ==
    (pc = "done" /\ tool \in Tools /\ args.groupName # Undefined) =>
        /\ result.message = NotSupported
        /\ ~GroupResolved

\* C7 amended: a non-empty groupName with no non-empty groupId or groupCode
\* always fails with the 'not supported' error, resolves no group and takes
\* no further step; a groupName beside a groupId or groupCode is ignored (the
\* group is the groupId's, else the groupCode's), and an empty groupName
\* counts as absent (the default group).
C7_GroupNameAloneFails ==
    (tool \in Tools /\ pc \notin {"idle", "awaitGroup"}) =>
        /\ (Truthy(args.groupName) /\ ~Truthy(args.groupId) /\ ~Truthy(args.groupCode)) =>
              /\ pc = "done"
              /\ result.kind = "thrown"
              /\ result.message = NotSupported
              /\ ~GroupResolved
              /\ StepsTaken = {"resolveGroup", "groupFailed"}
        /\ (Truthy(args.groupId) /\ GroupResolved) => group.id = args.groupId
        /\ (~Truthy(args.groupId) /\ Truthy(args.groupCode) /\ GroupResolved) =>
              group.id = InviteCodeGroup(args.groupCode)
        /\ (~Truthy(args.groupId) /\ ~Truthy(args.groupCode) /\ GroupResolved) =>
              /\ ~Truthy(args.groupName)
              /\ group.id = DefaultGroupId

\* createExpense selected by groupName alone ended in the 'not supported' error
C7_Witness ==
    /\ tool = "createExpense"
    /\ pc = "done"
    /\ Truthy(args.groupName)
    /\ result.message = NotSupported

\* the place of a step in the order of an invocation
Rank(step) ==
    CASE step \in {"resolveGroup", "getDefaultGroup"} -> 1
      [] step \in {"groupResolved", "groupFailed"} -> 2
      [] step = "shareCheck" -> 3
      [] step = "listMembers" -> 4
      [] step \in {"membersListed", "membersFailed"} -> 5
      [] step = "createExpense" -> 6
      [] step = "entry.expense.create" -> 7
      [] step \in {"finalReturned", "finalFailed"} -> 8

FailureSteps == {"groupFailed", "membersFailed", "finalFailed"}

\* C8: in a createExpense invocation the steps come in the fixed order group
\* resolution, share-sum check, listMembers, GroupService.createExpense, each
\* at most once; a step is only taken when the one before it has completed
\* without failure, and nothing follows a failed step.
C8_StepOrder ==
    (tool = "createExpense") =>
        /\ \A i, j \in 1..Len(trace) : i < j => Rank(trace[i].step) < Rank(trace[j].step)
        /\ Cardinality(StepsNamed("listMembers")) <= 1
        /\ Took("shareCheck") => Took("groupResolved")
        /\ Took("listMembers") =>
              /\ Took("shareCheck")
              /\ WithinTolerance(TotalFrom(args.profiteers, 1))
        /\ Took("createExpense") =>
              /\ Took("shareCheck")
              /\ WithinTolerance(TotalFrom(args.profiteers, 1))
              /\ Took("listMembers") <=> Took("membersListed")
        /\ \A i \in 1..Len(trace) : trace[i].step \in FailureSteps => i = Len(trace)
        /\ result.isError => trace[Len(trace)].step \in {"shareCheck", "membersListed"}
        /\ (result.kind = "thrown" /\ ~(trace[Len(trace)].step \in FailureSteps)) =>
              trace[Len(trace)].step = "membersListed"

\* an invocation that took every step, from group resolution to the created entry
C8_Witness ==
    /\ tool = "createExpense"
    /\ pc = "done"
    /\ Took("listMembers")
    /\ Took("finalReturned")
    /\ Len(trace) = 8

\* the members of the snapshot that carry the name n, whatever the casing
Carrying(list, n) ==
    { k \in 1..Len(list) :
         /\ IsString(list[k].name)
         /\ IsString(list[k].GlobalId)
         /\ ToLowerCase(list[k].name) = ToLowerCase(n) }

\* the name is that of some entry of the snapshot, usable or not
Listed(list, n) ==
    \E k \in 1..Len(list) :
       IsString(list[k].name) /\ ToLowerCase(list[k].name) = ToLowerCase(n)

Largest(S) == CHOOSE k \in S : \A l \in S : l <= k

\* the stable id of the name: the GlobalId of the last member carrying it
StableId(list, n) ==
    IF Carrying(list, n) = {} THEN Undefined
    ELSE list[Largest(Carrying(list, n))].GlobalId

Requested == NamesToResolve(args)

\* the positions of the requested names no entry of the snapshot has
Misses == { i \in 1..Len(Requested) : ~Listed(snapshot, Requested[i]) }
FirstMiss == CHOOSE i \in Misses : \A j \in Misses : i <= j

\* C2: when a name-only payer or profiteer of createExpense has a name that
\* is absent (case-insensitively) from the member snapshot, the call ends in
\* a returned result flagged isError, not a thrown error, that names the
\* first such name exactly as given, and GroupService.createExpense is not
\* called.
C2_UnknownNameIsToolError ==
    (tool = "createExpense" /\ Took("membersListed") /\ Misses # {}) =>
        /\ pc = "done"
        /\ result.kind = "returned"
        /\ result.isError
        /\ result.arg = Requested[FirstMiss]
        /\ ~Took("createExpense")

\* C3: for every requested name that a member of the snapshot carries,
\* resolveUserIdsByName returns that member's GlobalId whatever the casing of
\* the request, under a key that is the requested name as given; when all
\* requested names are carried, it returns.
C3_SameIdForEveryCasing ==
    (tool = "createExpense" /\ Took("membersListed")) =>
        /\ (\A i \in 1..Len(Requested) : Carrying(snapshot, Requested[i]) # {}) =>
              result.message # UnknownMember
        /\ (result.message # UnknownMember) =>
              \A i \in 1..Len(Requested) :
                 Carrying(snapshot, Requested[i]) # {} =>
                    /\ Requested[i] \in DOMAIN nameToId
                    /\ nameToId[Requested[i]] = StableId(snapshot, Requested[i])

Succeeded ==
    /\ tool = "createExpense"
    /\ pc = "done"
    /\ result.kind = "returned"
    /\ ~result.isError

\* the userId the call must carry for a party of the input
ExpectedUserId(p) == IF p.userId # Undefined THEN p.userId ELSE StableId(snapshot, p.name)

\* C4: when createExpense succeeds, GroupService.createExpense was called
\* exactly once, with the input title and amount, and with payer and
\* profiteer lists of the input's length and order whose entries carry the
\* input amount / share and the supplied userId if one was given, else the
\* stable id of the member its name belongs to (every requested name being
\* that of a member).
C4_ForwardsNormalizedLists ==
    (Succeeded /\ \A i \in 1..Len(Requested) : Carrying(snapshot, Requested[i]) # {}) =>
        /\ Cardinality(StepsNamed("createExpense")) = 1
        /\ \A k \in StepsNamed("createExpense") :
              /\ trace[k].arg.title = args.title
              /\ trace[k].arg.amount = args.amount
              /\ Len(trace[k].arg.payers) = Len(args.payers)
              /\ Len(trace[k].arg.profiteers) = Len(args.profiteers)
              /\ \A i \in 1..Len(args.payers) :
                    /\ trace[k].arg.payers[i].amount = args.payers[i].amount
                    /\ trace[k].arg.payers[i].userId = ExpectedUserId(args.payers[i])
              /\ \A i \in 1..Len(args.profiteers) :
                    /\ trace[k].arg.profiteers[i].share = args.profiteers[i].share
                    /\ trace[k].arg.profiteers[i].userId = ExpectedUserId(args.profiteers[i])

\* a userId: a string that is not empty
IsUserId(v) == IsString(v) /\ v # EmptyString

\* C9: GroupService.createExpense is only called with payers and profiteers
\* that all carry a non-empty userId; when a party still lacks one after
\* normalization (an empty userId supplied beside a name), the tool returns a
\* result flagged isError and never calls GroupService.createExpense.
C9_NoCallWithoutUserId ==
    /\ \A k \in StepsNamed("createExpense") :
          /\ \A i \in 1..Len(trace[k].arg.payers) : IsUserId(trace[k].arg.payers[i].userId)
          /\ \A i \in 1..Len(trace[k].arg.profiteers) :
                IsUserId(trace[k].arg.profiteers[i].userId)
    /\ ( /\ tool = "createExpense"
         /\ pc \in {"awaitFinal", "done"}
         /\ Took("shareCheck")
         /\ result.message # SharesMsg
         /\ result.kind # "thrown"
         /\ \/ \E i \in 1..Len(args.payers) : args.payers[i].userId = EmptyString
            \/ \E i \in 1..Len(args.profiteers) : args.profiteers[i].userId = EmptyString )
       => /\ pc = "done"
          /\ result.kind = "returned"
          /\ result.isError
          /\ result.message = FailedToResolve
          /\ ~Took("createExpense")

----------------------------------------------------------------------------
(* Properties of the session manager, checked under SessionSpec *)

Requests == {"POST", "GET", "DELETE"}
Registered == DOMAIN transports
ToolVars == <<pc, tool, args, group, snapshot, nameToId, result, trace, callSid>>

\* a POST without session identifier whose body is no initialization request
C5_Step ==
    (event'.type = "POST" /\ ~Truthy(event'.header) /\ ~event'.init) =>
        /\ response'.status = "400"
        /\ response'.body = BadRequest
        /\ transports' = transports
        /\ created' = created
        /\ connecting' = connecting
        /\ ToolVars' = ToolVars

\* C5: in every reachable state, a POST that carries no session identifier
\* and is not an initialization request is answered 400, and it leaves the
\* session map as it was: no transport is created, no session registered and
\* no handler entered.
C5_NoSessionNoInitRejected == [][C5_Step]_vars

\* such a POST was rejected while a session was registered
C5_Witness ==
    /\ event.type = "POST"
    /\ ~Truthy(event.header)
    /\ ~event.init
    /\ response.status = "400"
    /\ Registered # {}

C6_Step ==
    /\ (event'.type \in Requests /\ event'.header \in closed) =>
          /\ response'.status = "400"
          /\ response'.body \in {BadRequest, InvalidSession}
          /\ transports' = transports
          /\ ToolVars' = ToolVars
    /\ (event'.type = "close") =>
          /\ event'.header \notin DOMAIN transports'
          /\ event'.header \notin Registered => transports' = transports

\* C6: once the close signal of a session has been processed, every POST, GET
\* or DELETE bearing that session's identifier is answered 400 and is not
\* forwarded to a transport or handler; the close signal removes the
\* identifier from the map, and for an identifier already absent it changes
\* nothing.
C6_ClosedSessionRejected == [][C6_Step]_vars

\* a request bearing a closed session's identifier was rejected while
\* another session was still registered
C6_Witness ==
    /\ event.type \in Requests
    /\ event.header \in closed
    /\ response.status = "400"
    /\ Registered # {}

C10_Step ==
    /\ \A s \in Registered :
          s \notin DOMAIN transports' => (event'.type = "close" /\ event'.header = s)
    /\ event'.type \in {"handler", "completed"} => transports' = transports
    /\ (event'.type \in Requests /\ event'.header \in Registered) =>
          response'.status = "forwarded"

\* C10: a request that ends in a tool-level error result or in a collaborator
\* failure leaves the session map unchanged; a registered identifier leaves
\* the map only by the close signal of its own session, and every request
\* bearing a registered identifier is forwarded.
C10_ErrorsKeepSessions == [][C10_Step]_vars

\* a call on a session failed (the share error in band, or a thrown error
\* answered 500) and both sessions are still registered
C10_Witness ==
    /\ event.type = "completed"
    /\ \/ response.body = SharesMsg
       \/ response.status = "500"
    /\ event.header \in Registered
    /\ Cardinality(Registered) = 2

====
